---- MODULE Spec2Model ----
(***************************************************************************)
(* The companion supervisor of idb (idb/common/companion.py): spawning the *)
(* companion process, the escalating teardown, one-shot commands bounded   *)
(* by a timeout, the operations that parse the output of a command, and    *)
(* the two session modes that read a handshake line.                       *)
(*                                                                         *)
(* Every task is one invocation running on the asyncio event loop.  A step *)
(* of a task runs from one suspension point (await) to the next, as the    *)
(* single-threaded loop runs it.  The companion process and the caller of  *)
(* a session are the environment.                                          *)
(***************************************************************************)
EXTENDS Integers, Sequences, FiniteSets, TLC

\* Number of invocations on the one Companion object, which may overlap.
NumTasks == 1

Tasks == 1..NumTasks

\* companion.py:28
DEFAULT_COMPANION_COMMAND_TIMEOUT == 120

\* Optional values are sets of at most one element: None is {}.
None == {}
Some(x) == {x}
TheValue(o) == CHOOSE x \in o : TRUE

VARIABLES
    companion_path,         \* Companion._companion_path (Optional[str])
    device_set_path,        \* Companion._device_set_path (Optional[str])
    platform,               \* sys.platform
    timeoutErrorIsBuiltin,  \* asyncio.TimeoutError is the builtin TimeoutError
                            \* (true from Python 3.11 on, false before)
    request,                \* the timeout and udid the caller passed
    mode,                   \* the operation each task runs
    pc,                     \* the await each task is suspended at
    arguments,              \* the arguments of the task's invocation
    timeout,                \* _run_companion_command's local `timeout`
    spawned,                \* create_subprocess_exec calls made by the task
    cmd,                    \* the command line of the task's process
    returncode,             \* process.returncode of the task's process
    stdout,                 \* what the process has written to its stdout
    signals,                \* signals sent to the task's process, in order
    teardowns,              \* calls of _terminate_process on the process
    teardown,               \* the path the last _terminate_process call took
    carried,                \* what was in flight when the process scope exited
    yielded,                \* what a session yielded to the caller's body
    outcome                 \* what the caller of the operation observes

config == <<companion_path, device_set_path, platform, timeoutErrorIsBuiltin>>
taskVars == <<request, mode, pc, arguments, timeout, carried, yielded, outcome>>
procVars == <<spawned, cmd, returncode, stdout, signals, teardowns, teardown>>
vars == <<config, taskVars, procVars>>

-----------------------------------------------------------------------------
(* Values *)

CompanionPath == "/usr/local/bin/idb_companion"
DeviceSetPath == "/tmp/sims"
Platforms == {"darwin", "linux"}

\* What a caller observes, or what is in flight.
NoOutcome == [kind |-> "none"]
Returned(v) == [kind |-> "return", value |-> v]
Raised(kind, msg) == [kind |-> kind, msg |-> msg]
\* What is in flight, or observed, is an exception.
IsFailure(exc) == exc.kind \notin {"none", "return"}

NoFilter == [kind |-> "None"]

\* The arguments of a call that the properties refer to; each is Optional.
NoRequest == [timeout |-> None, udid |-> None, only |-> NoFilter]

CancelledError == Raised("CancelledError", "")
AsyncioTimeoutError == Raised("asyncio.TimeoutError", "")


\* Inputs of the operations.
RunArguments == {<<"--boot", "U1">>}
TimeoutInputs == {None, Some(0), Some(5)}
Udids == {"U1"}
SocketPaths == {"/tmp/idb.sock"}
SimulatorFilter == [kind |-> "TargetType", type |-> "SIMULATOR"]
DeviceFilter == [kind |-> "TargetType", type |-> "DEVICE"]
EcidFilter == [kind |-> "ECIDFilter", ecid |-> "42"]
OnlyFilters == {NoFilter, SimulatorFilter}
AllFilters == {NoFilter, SimulatorFilter, DeviceFilter, EcidFilter}
DeviceTypes == {"iPhone X"}
OsVersions == {"iOS 13.0"}
Destinations == {None, Some("/tmp/clones")}
UdidCommands == {"boot", "shutdown", "erase"}
DescribedUdids == {None, Some("U1"), Some("U2")}
DeletedUdids == {None, Some("U1")}
OperationTimeouts == {None, Some(5)}

\* Lines a companion may write first on its stdout.
GrpcLine == "{\"grpc_path\": \"/tmp/sock\"}"
OtherGrpcLine == "{\"grpc_path\": \"/tmp/other\"}"
NullGrpcLine == "{\"grpc_path\": null}"
TargetLine == "{\"udid\": \"U1\", \"name\": \"iPhone\", \"state\": \"Booted\", \"type\": \"simulator\", \"os_version\": \"iOS 13.0\", \"architecture\": \"x86_64\"}"
OtherTargetLine == "{\"udid\": \"U2\", \"name\": \"iPad\", \"state\": \"Shutdown\", \"type\": \"simulator\", \"os_version\": \"iOS 13.0\", \"architecture\": \"x86_64\"}"
UdidOnlyLine == "{\"udid\": \"U1\"}"
ProgressLine == "progress: 50%"
ArrayLine == "[1]"
BadUtf8Line == "\\xff"
EndOfStream == ""
BootHeadlessLines == {TargetLine, UdidOnlyLine, ProgressLine, BadUtf8Line}
UnixDomainServerLines ==
    {GrpcLine, OtherGrpcLine, NullGrpcLine, UdidOnlyLine, ProgressLine,
     ArrayLine, BadUtf8Line}

\* What a one-shot command may have written when it exits.
RunOutputs == {TargetLine}

-----------------------------------------------------------------------------
(* Decoding and JSON *)

JsonString(s) == [type |-> "string", value |-> s]
JsonNull == [type |-> "null"]
JsonArray == [type |-> "array"]
JsonObject(members) == [type |-> "object", members |-> members]

Ok(v) == [raised |-> FALSE, value |-> v]
Raise(exc) == [raised |-> TRUE, exc |-> exc]

\* bytes.decode(): the bytes as text, or UnicodeDecodeError.
Decode(line) ==
    IF line = BadUtf8Line
        THEN Raise(Raised("UnicodeDecodeError", line))
        ELSE Ok(line)

\* json.loads on the texts above.
JsonLoads(text) ==
    CASE text = GrpcLine ->
            Ok(JsonObject([grpc_path |-> JsonString("/tmp/sock")]))
      [] text = OtherGrpcLine ->
            Ok(JsonObject([grpc_path |-> JsonString("/tmp/other")]))
      [] text = NullGrpcLine ->
            Ok(JsonObject([grpc_path |-> JsonNull]))
      [] text = TargetLine ->
            Ok(JsonObject([udid |-> JsonString("U1"),
                           name |-> JsonString("iPhone"),
                           state |-> JsonString("Booted"),
                           type |-> JsonString("simulator"),
                           os_version |-> JsonString("iOS 13.0"),
                           architecture |-> JsonString("x86_64")]))
      [] text = OtherTargetLine ->
            Ok(JsonObject([udid |-> JsonString("U2"),
                           name |-> JsonString("iPad"),
                           state |-> JsonString("Shutdown"),
                           type |-> JsonString("simulator"),
                           os_version |-> JsonString("iOS 13.0"),
                           architecture |-> JsonString("x86_64")]))
      [] text = UdidOnlyLine ->
            Ok(JsonObject([udid |-> JsonString("U1")]))
      [] text = ArrayLine -> Ok(JsonArray)
      [] OTHER -> Raise(Raised("JSONDecodeError", text))

\* dict.get(key): the Python value of the member, None for a missing member
\* and for a JSON null.
DictGet(obj, key) ==
    IF key \in DOMAIN obj.members /\ obj.members[key].type = "string"
        THEN Some(obj.members[key].value)
        ELSE None

parse_json_line(line) ==
    LET decoded_line == Decode(line) IN
    IF decoded_line.raised
        THEN decoded_line
        ELSE LET loaded == JsonLoads(decoded_line.value) IN
             IF loaded.raised
                 THEN Raise([kind |-> "IdbJsonException",
                             msg |-> "Failed to parse json from: ",
                             line |-> decoded_line.value])
                 ELSE loaded

\* idb.common.format.target_description_from_json: the line either parses
\* into a full record or the call fails.
TargetFields == {"udid", "name", "state", "type", "os_version", "architecture"}
target_description_from_json(data) ==
    LET loaded == JsonLoads(data) IN
    IF loaded.raised
        THEN loaded
        ELSE IF loaded.value.type = "object"
                  /\ TargetFields \subseteq DOMAIN loaded.value.members
                 THEN Ok(loaded.value.members)
                 ELSE Raise(Raised("TargetDescriptionError", data))

\* boot_headless, lines 157-160: read the line, yield None.
BootHeadlessHandshake(line) ==
    LET decoded == Decode(line) IN
    IF decoded.raised
        THEN decoded
        ELSE LET target == target_description_from_json(decoded.value) IN
             IF target.raised THEN target ELSE Ok("None")

\* unix_domain_server, lines 227-233: read the line, yield grpc_path.
UnixDomainServerHandshake(line) ==
    LET output == parse_json_line(line) IN
    IF output.raised
        THEN output
        ELSE IF output.value.type # "object"
                 THEN Raise(Raised("AttributeError", "get"))
                 ELSE LET grpc_path == DictGet(output.value, "grpc_path") IN
                      IF grpc_path = None
                          THEN Raise([kind |-> "IdbException",
                                      msg |-> "No grpc_path in ",
                                      line |-> line])
                          ELSE Ok(TheValue(grpc_path))

Handshake(m, line) ==
    IF m = "boot_headless"
        THEN BootHeadlessHandshake(line)
        ELSE UnixDomainServerHandshake(line)

-----------------------------------------------------------------------------
(* Command lines *)

\* f"ecid:{only.ecid}" for the ECIDs above.
EcidToken(ecid) == CASE ecid = "42" -> "ecid:42"

\* A filter argument that names the simulators for every target type, in
\* place of the choice of line 55.
OnlyArgAlwaysSimulator(only) ==
    IF only.kind = "TargetType"
        THEN <<"--only", "simulator">>
        ELSE IF only.kind = "ECIDFilter"
                 THEN <<"--only", EcidToken(only.ecid)>>
                 ELSE <<>>

\* _only_arg_from_filter, lines 53-58.
_only_arg_from_filter(only) ==
    IF only.kind = "TargetType"
        THEN <<"--only", IF only.type = "SIMULATOR" THEN "simulator" ELSE "device">>
        ELSE IF only.kind = "ECIDFilter"
                 THEN <<"--only", EcidToken(only.ecid)>>
                 ELSE <<>>

\* A command line with the device set option after the arguments of the
\* operation, in place of the order of lines 96-100.
CommandLineSetLast(args) ==
    <<TheValue(companion_path)>>
        \o args
        \o (IF device_set_path # None
                THEN <<"--device-set-path", TheValue(device_set_path)>>
                ELSE <<>>)

\* _start_companion_command, lines 96-100.
CommandLine(args) ==
    <<TheValue(companion_path)>>
        \o (IF device_set_path # None
                THEN <<"--device-set-path", TheValue(device_set_path)>>
                ELSE <<>>)
        \o args

\* `timeout or self._companion_command_timeout`, line 116.
EffectiveTimeout(t) ==
    IF t = None \/ t = Some(0)
        THEN DEFAULT_COMPANION_COMMAND_TIMEOUT
        ELSE TheValue(t)


-----------------------------------------------------------------------------
(* The output of a command and what the operations make of it *)

\* The text a command writes is a sequence of pieces: a newline, a space, or
\* a run of characters that holds neither.
NL == "\n"
SP == " "
OutputPieces == {NL, SP, TargetLine, OtherTargetLine, ProgressLine}

\* The longest output, in pieces.
MaxOutputLen == 3

RECURSIVE TextsOfLen(_)
TextsOfLen(n) ==
    IF n = 0
        THEN {<<>>}
        ELSE {Append(text, piece) :
                  text \in TextsOfLen(n - 1), piece \in OutputPieces}

\* What a command may have written when it exits, besides nothing.
CommandOutputs == UNION {TextsOfLen(n) : n \in 1..MaxOutputLen}

\* What is written to an operation that does not read its output.
IgnoredOutputs == {<<ProgressLine, NL>>}

\* str.splitlines(): a line ends at a newline, and the text after the last
\* newline is a line when it is not empty.
RECURSIVE SplitFrom(_, _, _)
SplitFrom(text, line, lines) ==
    IF text = <<>>
        THEN IF line = <<>> THEN lines ELSE Append(lines, line)
        ELSE IF Head(text) = NL
                 THEN SplitFrom(Tail(text), <<>>, Append(lines, line))
                 ELSE SplitFrom(Tail(text), Append(line, Head(text)), lines)
splitlines(text) == SplitFrom(text, <<>>, <<>>)

\* str.strip() on a line.
RECURSIVE lstrip(_)
lstrip(line) ==
    IF line # <<>> /\ Head(line) = SP THEN lstrip(Tail(line)) ELSE line
RECURSIVE rstrip(_)
rstrip(line) ==
    IF line # <<>> /\ line[Len(line)] = SP
        THEN rstrip(SubSeq(line, 1, Len(line) - 1))
        ELSE line
strip(line) == rstrip(lstrip(line))

\* The text json.loads is given with a line: it skips the spaces around one
\* value; a line of several pieces is none of the JSON texts.
SeveralPieces == "<several pieces>"
LineText(line) ==
    LET data == strip(line) IN
    IF data = <<>> THEN ""
    ELSE IF Len(data) = 1 THEN data[1]
    ELSE SeveralPieces

\* create and clone, lines 145 and 182: output.splitlines()[-1] is parsed.
IndexError == Raised("IndexError", "list index out of range")
ParseLastLine(output) ==
    LET lines == splitlines(output) IN
    IF lines = <<>>
        THEN Raise(IndexError)
        ELSE target_description_from_json(LineText(lines[Len(lines)]))

\* list_targets leaving out the lines that fail to parse, in place of the
\* comprehension of lines 196-200.
RECURSIVE ParseLinesLenient(_, _)
ParseLinesLenient(lines, targets) ==
    IF lines = <<>>
        THEN Ok(targets)
        ELSE LET target == target_description_from_json(
                               LineText(strip(Head(lines)))) IN
             IF target.raised
                 THEN ParseLinesLenient(Tail(lines), targets)
                 ELSE ParseLinesLenient(Tail(lines),
                                        Append(targets, target.value))

\* list_targets, lines 196-200: every line that is not blank is parsed, in
\* order; the first failure leaves the comprehension.
RECURSIVE ParseLines(_, _)
ParseLines(lines, targets) ==
    IF lines = <<>>
        THEN Ok(targets)
        ELSE IF Len(strip(Head(lines))) = 0
                 THEN ParseLines(Tail(lines), targets)
                 ELSE LET target == target_description_from_json(
                                        LineText(strip(Head(lines)))) IN
                      IF target.raised
                          THEN target
                          ELSE ParseLines(Tail(lines),
                                          Append(targets, target.value))
ParseListed(output) == ParseLines(splitlines(output), <<>>)

\* target_description returning the first match, in place of the length
\* checks of lines 212-216.
SelectFirstDescribed(udid, all_details) ==
    LET details ==
            IF udid # None
                THEN SelectSeq(all_details,
                               LAMBDA target : target.udid.value = TheValue(udid))
                ELSE all_details
    IN  IF Len(details) = 0
            THEN Raise(Raised("IdbException", "No device info found"))
            ELSE Ok(details[1])

\* target_description, lines 209-217.
SelectDescribed(udid, all_details) ==
    LET details ==
            IF udid # None
                THEN SelectSeq(all_details,
                               LAMBDA target : target.udid.value = TheValue(udid))
                ELSE all_details
    IN  IF Len(details) > 1
            THEN Raise(Raised("IdbException", "More than one device info found"))
            ELSE IF Len(details) = 0
                     THEN Raise(Raised("IdbException", "No device info found"))
                     ELSE Ok(details[1])

-----------------------------------------------------------------------------
(* The state after construction *)

\* The invocations `tasks` are yet to start.
InitOf(tasks) ==
    /\ companion_path \in {None, Some(CompanionPath)}
    /\ device_set_path \in {None, Some(DeviceSetPath)}
    /\ platform \in Platforms
    \* The companion is a macOS executable: a path is configured there only.
    /\ companion_path # None => platform = "darwin"
    /\ companion_path = None => device_set_path = None
    /\ timeoutErrorIsBuiltin \in BOOLEAN
    /\ request = [t \in tasks |-> NoRequest]
    /\ mode = [t \in tasks |-> "none"]
    /\ pc = [t \in tasks |-> "idle"]
    /\ arguments = [t \in tasks |-> <<>>]
    /\ timeout = [t \in tasks |-> None]
    /\ spawned = [t \in tasks |-> 0]
    /\ cmd = [t \in tasks |-> <<>>]
    /\ returncode = [t \in tasks |-> None]
    /\ stdout = [t \in tasks |-> EndOfStream]
    /\ signals = [t \in tasks |-> <<>>]
    /\ teardowns = [t \in tasks |-> 0]
    /\ teardown = [t \in tasks |-> "not_started"]
    /\ carried = [t \in tasks |-> NoOutcome]
    /\ yielded = [t \in tasks |-> None]
    /\ outcome = [t \in tasks |-> NoOutcome]

Init == InitOf(Tasks)

-----------------------------------------------------------------------------
(* _terminate_process *)

Signal(sig, t) == [sig |-> sig, by |-> t]
Sent(t, sig) == Len(SelectSeq(signals[t], LAMBDA s : s.sig = sig))

\* _terminate_process without the returncode check of lines 39-42.
TerminateProcessWithoutExitCheck(t, exc) ==
    /\ teardowns' = [teardowns EXCEPT ![t] = @ + 1]
    /\ carried' = [carried EXCEPT ![t] = exc]
    /\ teardown' = [teardown EXCEPT ![t] = "waiting"]
    /\ signals' = [signals EXCEPT ![t] = Append(@, Signal("SIGTERM", t))]
    /\ pc' = [pc EXCEPT ![t] = "terminate_wait"]
    /\ outcome' = outcome

\* _terminate_process signalling every companion the Companion object has
\* running, in place of the one process it is handed on line 37.
TerminateProcessOfAll(t, exc) ==
    /\ teardowns' = [teardowns EXCEPT ![t] = @ + 1]
    /\ carried' = [carried EXCEPT ![t] = exc]
    /\ IF returncode[t] # None
           THEN /\ teardown' = [teardown EXCEPT ![t] = "already_exited"]
                /\ signals' = signals
                /\ pc' = [pc EXCEPT ![t] = "done"]
                /\ outcome' = [outcome EXCEPT ![t] = exc]
           ELSE /\ teardown' = [teardown EXCEPT ![t] = "waiting"]
                /\ signals' =
                       [u \in DOMAIN signals |->
                            IF spawned[u] > 0 /\ returncode[u] = None
                                THEN Append(signals[u], Signal("SIGTERM", t))
                                ELSE signals[u]]
                /\ pc' = [pc EXCEPT ![t] = "terminate_wait"]
                /\ outcome' = outcome

\* Lines 39-46: called from the finally of _start_companion_command with
\* exc in flight (an exception, or the value being returned).  Returns at
\* once when the process has exited; otherwise sends SIGTERM and suspends
\* in wait_for(process.wait(), timeout).
TerminateProcess(t, exc) ==
    /\ teardowns' = [teardowns EXCEPT ![t] = @ + 1]
    /\ carried' = [carried EXCEPT ![t] = exc]
    /\ IF returncode[t] # None
           THEN /\ teardown' = [teardown EXCEPT ![t] = "already_exited"]
                /\ signals' = signals
                /\ pc' = [pc EXCEPT ![t] = "done"]
                /\ outcome' = [outcome EXCEPT ![t] = exc]
           ELSE /\ teardown' = [teardown EXCEPT ![t] = "waiting"]
                /\ signals' = [signals EXCEPT ![t] = Append(@, Signal("SIGTERM", t))]
                /\ pc' = [pc EXCEPT ![t] = "terminate_wait"]
                /\ outcome' = outcome

\* Lines 46-47: the process exited within the teardown timeout.
TerminateWaitReturn(t) ==
    /\ pc[t] = "terminate_wait"
    /\ returncode[t] # None
    /\ teardown' = [teardown EXCEPT ![t] = "exited_after_sigterm"]
    /\ pc' = [pc EXCEPT ![t] = "done"]
    /\ outcome' = [outcome EXCEPT ![t] = carried[t]]
    /\ UNCHANGED <<config, request, mode, arguments, timeout, carried, yielded,
                   spawned, cmd, returncode, stdout, signals, teardowns>>

\* Lines 46-50: wait_for raises asyncio.TimeoutError; `except TimeoutError`
\* names the builtin, which catches it only where the two are one class.
TerminateWaitTimeout(t) ==
    /\ pc[t] = "terminate_wait"
    /\ returncode[t] = None
    /\ pc' = [pc EXCEPT ![t] = "done"]
    /\ IF timeoutErrorIsBuiltin
           THEN /\ signals' = [signals EXCEPT ![t] = Append(@, Signal("SIGKILL", t))]
                /\ teardown' = [teardown EXCEPT ![t] = "killed"]
                /\ outcome' = [outcome EXCEPT ![t] = carried[t]]
           ELSE /\ signals' = signals
                /\ teardown' = [teardown EXCEPT ![t] = "timeout_raised"]
                /\ outcome' = [outcome EXCEPT ![t] = AsyncioTimeoutError]
    /\ UNCHANGED <<config, request, mode, arguments, timeout, carried, yielded,
                   spawned, cmd, returncode, stdout, teardowns>>

\* The task is cancelled while suspended in line 46: CancelledError leaves
\* wait_for and _terminate_process, and replaces what was in flight.
CancelTeardown(t) ==
    /\ pc[t] = "terminate_wait"
    /\ teardown' = [teardown EXCEPT ![t] = "cancelled"]
    /\ pc' = [pc EXCEPT ![t] = "done"]
    /\ outcome' = [outcome EXCEPT ![t] = CancelledError]
    /\ UNCHANGED <<config, request, mode, arguments, timeout, carried, yielded,
                   spawned, cmd, returncode, stdout, signals, teardowns>>


-----------------------------------------------------------------------------
(* _start_companion_command and the operations built on it *)

ConfigurationError ==
    Raised("IdbException",
           IF platform = "darwin"
               THEN "Companion path not provided"
               ELSE "Companion interactions do not work on non-macOS platforms")

\* _start_companion_command falling back to an executable on the PATH when
\* no path is configured, in place of lines 89-95.
StartCompanionCommandDefaultPath(t, args, next, exec_ok) ==
    /\ arguments' = [arguments EXCEPT ![t] = args]
    /\ IF ~exec_ok
           THEN /\ pc' = [pc EXCEPT ![t] = "done"]
                /\ outcome' = [outcome EXCEPT ![t] =
                       Raised("OSError", "create_subprocess_exec")]
                /\ UNCHANGED <<spawned, cmd>>
           ELSE /\ spawned' = [spawned EXCEPT ![t] = @ + 1]
                /\ cmd' = [cmd EXCEPT ![t] = <<"idb_companion">> \o args]
                /\ pc' = [pc EXCEPT ![t] = next]
                /\ outcome' = outcome
    /\ UNCHANGED <<config, carried, yielded, returncode, stdout, signals,
                   teardowns, teardown>>

\* Lines 88-107, up to the yield: fail when no path is configured, else
\* spawn the process (exec_ok: create_subprocess_exec succeeds) and hand it
\* to the body, which suspends at `next`.
StartCompanionCommand(t, args, next, exec_ok) ==
    /\ arguments' = [arguments EXCEPT ![t] = args]
    /\ IF companion_path = None
           THEN /\ pc' = [pc EXCEPT ![t] = "done"]
                /\ outcome' = [outcome EXCEPT ![t] = ConfigurationError]
                /\ UNCHANGED <<spawned, cmd>>
           ELSE IF ~exec_ok
                    THEN /\ pc' = [pc EXCEPT ![t] = "done"]
                         /\ outcome' = [outcome EXCEPT ![t] =
                                Raised("OSError", "create_subprocess_exec")]
                         /\ UNCHANGED <<spawned, cmd>>
                    ELSE /\ spawned' = [spawned EXCEPT ![t] = @ + 1]
                         /\ cmd' = [cmd EXCEPT ![t] = CommandLine(args)]
                         /\ pc' = [pc EXCEPT ![t] = next]
                         /\ outcome' = outcome
    /\ UNCHANGED <<config, carried, yielded, returncode, stdout, signals,
                   teardowns, teardown>>

\* _run_companion_command, lines 116-119, up to the await of communicate().
RunCompanionCommand(t, args, tmo, exec_ok) ==
    /\ pc[t] = "idle"
    /\ request' = [request EXCEPT ![t] = [NoRequest EXCEPT !.timeout = tmo]]
    /\ mode' = [mode EXCEPT ![t] = "run"]
    /\ timeout' = [timeout EXCEPT ![t] = Some(EffectiveTimeout(tmo))]
    /\ StartCompanionCommand(t, args, "communicate", exec_ok)

\* boot_headless, lines 153-157, up to the await of readline().
BootHeadless(t, udid, exec_ok) ==
    /\ pc[t] = "idle"
    /\ request' = request
    /\ mode' = [mode EXCEPT ![t] = "boot_headless"]
    /\ timeout' = timeout
    /\ StartCompanionCommand(t, <<"--headless", "1", "--boot", udid>>,
                             "readline", exec_ok)

\* unix_domain_server, lines 223-227, up to the await of readline().
UnixDomainServer(t, udid, path, only, exec_ok) ==
    /\ pc[t] = "idle"
    /\ request' = [request EXCEPT ![t] =
                        [timeout |-> None, udid |-> Some(udid), only |-> only]]
    /\ mode' = [mode EXCEPT ![t] = "unix_domain_server"]
    /\ timeout' = timeout
    /\ StartCompanionCommand(
           t,
           <<"--udid", udid, "--grpc-domain-sock", path>>
               \o _only_arg_from_filter(only),
           "readline", exec_ok)

\* The operations that hold a session open.
Sessions == {"boot_headless", "unix_domain_server"}

\* The operations that run one command to its end, and those of them that
\* parse its output.
Parsing == {"create", "clone", "list_targets", "target_description"}
Operations == Parsing \cup {"delete"} \cup UdidCommands

\* An operation calls _run_companion_command, lines 116-119, up to the await
\* of communicate().
RunOperation(t, op, args, tmo, udid, only, exec_ok) ==
    /\ pc[t] = "idle"
    /\ request' = [request EXCEPT ![t] =
                        [timeout |-> tmo, udid |-> udid, only |-> only]]
    /\ mode' = [mode EXCEPT ![t] = op]
    /\ timeout' = [timeout EXCEPT ![t] = Some(EffectiveTimeout(tmo))]
    /\ StartCompanionCommand(t, args, "communicate", exec_ok)

\* f"{device_type},{os_version}" and f"--{command}" for the inputs above.
CreateToken(device_type, os_version) ==
    CASE device_type = "iPhone X" /\ os_version = "iOS 13.0" -> "iPhone X,iOS 13.0"
CommandFlag(command) ==
    CASE command = "boot" -> "--boot"
      [] command = "shutdown" -> "--shutdown"
      [] command = "erase" -> "--erase"
      [] command = "delete" -> "--delete"

\* create, lines 142-144.
Create(t, device_type, os_version, tmo, exec_ok) ==
    RunOperation(t, "create",
                 <<"--create", CreateToken(device_type, os_version)>>,
                 tmo, None, NoFilter, exec_ok)

\* _run_udid_command, lines 134-136, as boot, shutdown and erase call it.
UdidCommand(t, command, udid, tmo, exec_ok) ==
    RunOperation(t, command, <<CommandFlag(command), udid>>, tmo, None,
                 NoFilter, exec_ok)

\* clone, lines 178-181.
Clone(t, udid, destination_device_set, tmo, exec_ok) ==
    RunOperation(t, "clone",
                 <<"--clone", udid>>
                     \o (IF destination_device_set # None
                             THEN <<"--clone-destination-set",
                                    TheValue(destination_device_set)>>
                             ELSE <<>>),
                 tmo, None, NoFilter, exec_ok)

\* delete, lines 186-188.
Delete(t, udid, tmo, exec_ok) ==
    RunOperation(t, "delete",
                 <<CommandFlag("delete"),
                   IF udid # None THEN TheValue(udid) ELSE "all">>,
                 tmo, udid, NoFilter, exec_ok)

\* list_targets, lines 194-195.
ListTargets(t, only, tmo, exec_ok) ==
    RunOperation(t, "list_targets",
                 <<"--list", "1">> \o _only_arg_from_filter(only),
                 tmo, None, only, exec_ok)

\* target_description, line 208, calling list_targets.
TargetDescription(t, udid, only, tmo, exec_ok) ==
    RunOperation(t, "target_description",
                 <<"--list", "1">> \o _only_arg_from_filter(only),
                 tmo, udid, only, exec_ok)

\* What the operation makes of the output _run_companion_command returned
\* (lines 145, 149, 182, 196-200 and 209-217); the private call returns it.
Complete(t, output) ==
    LET text == IF output = EndOfStream THEN <<>> ELSE output
        result ==
            CASE mode[t] \in {"create", "clone"} -> ParseLastLine(text)
              [] mode[t] = "list_targets" -> ParseListed(text)
              [] mode[t] = "target_description" ->
                     LET all_details == ParseListed(text) IN
                     IF all_details.raised
                         THEN all_details
                         ELSE SelectDescribed(request[t].udid, all_details.value)
              [] OTHER -> Ok("None")
    IN  IF mode[t] = "run"
            THEN Returned(output)
            ELSE IF result.raised THEN result.exc ELSE Returned(result.value)

CommandFailure(t) ==
    [kind |-> "IdbException", msg |-> "Failed to run ",
     arguments |-> arguments[t]]
CommandTimeout(t) ==
    [kind |-> "IdbException", msg |-> "Timed out after ",
     timeout |-> TheValue(timeout[t]), arguments |-> arguments[t]]

\* An operation that parses the output before the exit code is looked at,
\* in place of the order of lines 122-125.
CommunicateReturnParsingFirst(t) ==
    /\ pc[t] = "communicate"
    /\ returncode[t] # None
    /\ LET output == Decode(stdout[t])
           result == IF output.raised THEN output.exc
                                      ELSE Complete(t, output.value)
       IN  TerminateProcess(t,
               IF IsFailure(result) \/ TheValue(returncode[t]) = 0
                   THEN result
                   ELSE CommandFailure(t))
    /\ UNCHANGED <<config, request, mode, arguments, timeout, yielded,
                   spawned, cmd, returncode, stdout>>

\* communicate() returning once the output is read, without the
\* process.wait() it gathers, so that the exit code may not be there yet.
CommunicateReturnAtOutput(t) ==
    /\ pc[t] = "communicate"
    /\ stdout[t] # EndOfStream \/ returncode[t] # None
    /\ LET output == Decode(stdout[t]) IN
       TerminateProcess(t,
           IF returncode[t] # None /\ TheValue(returncode[t]) # 0
               THEN CommandFailure(t)
               ELSE IF output.raised THEN output.exc
                                     ELSE Complete(t, output.value))
    /\ UNCHANGED <<config, request, mode, arguments, timeout, yielded,
                   spawned, cmd, returncode, stdout>>

\* Lines 119-125 and 108-111: communicate() returned before the timeout,
\* the exit code decides, and the scope's finally runs teardown, which
\* returns at once; an operation then parses the output it was returned.
CommunicateReturn(t) ==
    /\ pc[t] = "communicate"
    /\ returncode[t] # None
    /\ LET output == Decode(stdout[t]) IN
       TerminateProcess(t,
           IF TheValue(returncode[t]) # 0
               THEN CommandFailure(t)
               ELSE IF output.raised THEN output.exc
                                     ELSE Complete(t, output.value))
    /\ UNCHANGED <<config, request, mode, arguments, timeout, yielded,
                   spawned, cmd, returncode, stdout>>

\* _run_companion_command swallowing the timeout and spawning the command
\* once more, in place of lines 126-129.
CommunicateTimeoutRetry(t) ==
    /\ pc[t] = "communicate"
    /\ returncode[t] = None
    /\ spawned[t] < 2
    /\ spawned' = [spawned EXCEPT ![t] = @ + 1]
    /\ UNCHANGED <<config, taskVars, cmd, returncode, stdout, signals,
                   teardowns, teardown>>

\* Lines 126-129 and 108-111: wait_for timed out first.
CommunicateTimeout(t) ==
    /\ pc[t] = "communicate"
    /\ returncode[t] = None
    /\ TerminateProcess(t, CommandTimeout(t))
    /\ UNCHANGED <<config, request, mode, arguments, timeout, yielded,
                   spawned, cmd, returncode, stdout>>

\* Teardown after the yield without the try/finally of lines 106-108: a
\* cancellation leaves the scope without it.
CancelWaitWithoutFinally(t) ==
    /\ pc[t] \in {"communicate", "readline"}
    /\ pc' = [pc EXCEPT ![t] = "done"]
    /\ outcome' = [outcome EXCEPT ![t] = CancelledError]
    /\ UNCHANGED <<config, request, mode, arguments, timeout, carried, yielded,
                   procVars>>

\* The task is cancelled while it awaits communicate() or readline():
\* CancelledError passes `except asyncio.TimeoutError` and reaches the finally.
CancelWait(t) ==
    /\ pc[t] \in {"communicate", "readline"}
    /\ TerminateProcess(t, CancelledError)
    /\ UNCHANGED <<config, request, mode, arguments, timeout, yielded,
                   spawned, cmd, returncode, stdout>>

\* A session that sends SIGTERM as soon as the handshake line is read, in
\* place of suspending at the yield of lines 160 and 233.
ReadlineThenTerminate(t) ==
    /\ pc[t] = "readline"
    /\ stdout[t] # EndOfStream \/ returncode[t] # None
    /\ LET handshake == Handshake(mode[t], stdout[t]) IN
       IF handshake.raised
           THEN /\ TerminateProcess(t, handshake.exc)
                /\ yielded' = yielded
           ELSE /\ yielded' = [yielded EXCEPT ![t] = Some(handshake.value)]
                /\ pc' = [pc EXCEPT ![t] = "body"]
                /\ signals' = [signals EXCEPT ![t] =
                                   Append(@, Signal("SIGTERM", t))]
                /\ UNCHANGED <<carried, outcome, teardowns, teardown>>
    /\ UNCHANGED <<config, request, mode, arguments, timeout, spawned, cmd,
                   returncode, stdout>>

\* Lines 157-160 and 227-233: readline() returned the first line, or b""
\* at the end of the stream; the session is yielded or the failure reaches
\* the finally.
Readline(t) ==
    /\ pc[t] = "readline"
    /\ stdout[t] # EndOfStream \/ returncode[t] # None
    /\ LET handshake == Handshake(mode[t], stdout[t]) IN
       IF handshake.raised
           THEN /\ TerminateProcess(t, handshake.exc)
                /\ yielded' = yielded
           ELSE /\ yielded' = [yielded EXCEPT ![t] = Some(handshake.value)]
                /\ pc' = [pc EXCEPT ![t] = "body"]
                /\ UNCHANGED <<carried, outcome, signals, teardowns, teardown>>
    /\ UNCHANGED <<config, request, mode, arguments, timeout, spawned, cmd, returncode,
                   stdout>>

\* The ways the caller's `async with` body ends: it completes, it raises,
\* or its task is cancelled.
BodyExits == {Returned("None"), Raised("BodyError", ""), CancelledError}

\* Lines 160-161, 233 and 108-111: the session is released.
BodyEnds(t, exc) ==
    /\ pc[t] = "body"
    /\ TerminateProcess(t, exc)
    /\ UNCHANGED <<config, request, mode, arguments, timeout, yielded,
                   spawned, cmd, returncode, stdout>>

-----------------------------------------------------------------------------
(* The companion process *)

ExitCodes(t) ==
    IF Sent(t, "SIGKILL") > 0 THEN {-9}
    ELSE IF Sent(t, "SIGTERM") > 0 THEN {-15}
    ELSE {0, 1}

\* The process is followed until its invocation has ended.
Running(t) == spawned[t] > 0 /\ returncode[t] = None /\ pc[t] # "done"

\* The process writes to its stdout while the task reads it: the output of
\* a command, or the first line of a session.
ProcWrite(t, data) ==
    /\ Running(t)
    /\ stdout[t] = EndOfStream
    /\ \/ pc[t] = "communicate" /\ mode[t] = "run" /\ data \in RunOutputs
       \/ pc[t] = "communicate" /\ mode[t] \in Parsing
              /\ data \in CommandOutputs
       \/ pc[t] = "communicate" /\ mode[t] \in Operations \ Parsing
              /\ data \in IgnoredOutputs
       \/ pc[t] = "readline" /\ mode[t] = "boot_headless"
              /\ data \in BootHeadlessLines
       \/ pc[t] = "readline" /\ mode[t] = "unix_domain_server"
              /\ data \in UnixDomainServerLines
    /\ stdout' = [stdout EXCEPT ![t] = data]
    /\ UNCHANGED <<config, taskVars, spawned, cmd, returncode, signals,
                   teardowns, teardown>>

\* The process exits and the event loop sets process.returncode.
ProcExit(t, rc) ==
    /\ Running(t)
    /\ rc \in ExitCodes(t)
    /\ returncode' = [returncode EXCEPT ![t] = Some(rc)]
    /\ UNCHANGED <<config, taskVars, spawned, cmd, stdout, signals,
                   teardowns, teardown>>

-----------------------------------------------------------------------------

Next ==
    \E t \in Tasks :
        \/ \E args \in RunArguments, tmo \in TimeoutInputs, ok \in BOOLEAN :
               RunCompanionCommand(t, args, tmo, ok)
        \/ \E udid \in Udids, ok \in BOOLEAN : BootHeadless(t, udid, ok)
        \/ \E udid \in Udids, path \in SocketPaths, only \in OnlyFilters,
              ok \in BOOLEAN :
               UnixDomainServer(t, udid, path, only, ok)
        \/ CommunicateReturn(t)
        \/ CommunicateTimeout(t)
        \/ CancelWait(t)
        \/ Readline(t)
        \/ \E exc \in BodyExits : BodyEnds(t, exc)
        \/ TerminateWaitReturn(t)
        \/ TerminateWaitTimeout(t)
        \/ CancelTeardown(t)
        \/ \E data \in RunOutputs \cup BootHeadlessLines \cup UnixDomainServerLines :
               ProcWrite(t, data)
        \/ \E rc \in {0, 1, -15, -9} : ProcExit(t, rc)

Spec == Init /\ [][Next]_vars


\* The event loop resumes a task whose await has completed, and fires the
\* timers of wait_for.  The companion and the caller are under no obligation.
FairSpec ==
    /\ Spec
    /\ \A t \in Tasks :
           /\ WF_vars(CommunicateReturn(t))
           /\ WF_vars(CommunicateTimeout(t))
           /\ WF_vars(Readline(t))
           /\ WF_vars(TerminateWaitReturn(t))
           /\ WF_vars(TerminateWaitTimeout(t))

\* One call of one public operation, alone on the Companion, against every
\* output a companion may write.
Caller == CHOOSE t \in Tasks : TRUE

OperationsNext ==
    \E t \in {Caller} :
        \/ \E device_type \in DeviceTypes, os_version \in OsVersions,
              tmo \in OperationTimeouts, ok \in BOOLEAN :
               Create(t, device_type, os_version, tmo, ok)
        \/ \E command \in UdidCommands, udid \in Udids,
              tmo \in OperationTimeouts, ok \in BOOLEAN :
               UdidCommand(t, command, udid, tmo, ok)
        \/ \E udid \in Udids, destination_device_set \in Destinations,
              tmo \in OperationTimeouts, ok \in BOOLEAN :
               Clone(t, udid, destination_device_set, tmo, ok)
        \/ \E udid \in DeletedUdids, tmo \in OperationTimeouts, ok \in BOOLEAN :
               Delete(t, udid, tmo, ok)
        \/ \E only \in AllFilters, tmo \in OperationTimeouts, ok \in BOOLEAN :
               ListTargets(t, only, tmo, ok)
        \/ \E udid \in DescribedUdids, tmo \in OperationTimeouts,
              ok \in BOOLEAN :
               TargetDescription(t, udid, NoFilter, tmo, ok)
        \/ \E udid \in Udids, ok \in BOOLEAN : BootHeadless(t, udid, ok)
        \/ \E udid \in Udids, path \in SocketPaths, only \in AllFilters,
              ok \in BOOLEAN :
               UnixDomainServer(t, udid, path, only, ok)
        \/ CommunicateReturn(t)
        \/ CommunicateTimeout(t)
        \/ CancelWait(t)
        \/ Readline(t)
        \/ \E exc \in BodyExits : BodyEnds(t, exc)
        \/ TerminateWaitReturn(t)
        \/ TerminateWaitTimeout(t)
        \/ CancelTeardown(t)
        \/ /\ mode[t] \in Operations /\ stdout[t] = EndOfStream
           /\ \E data \in CommandOutputs \cup IgnoredOutputs : ProcWrite(t, data)
        \/ /\ mode[t] \in Sessions
           /\ \E data \in BootHeadlessLines \cup UnixDomainServerLines :
                  ProcWrite(t, data)
        \/ \E rc \in {0, 1, -15, -9} : ProcExit(t, rc)

OperationsSpec == Init /\ [][OperationsNext]_vars

\* Invocations that overlap on the one Companion object.
NumConcurrent == 2
ConcurrentTasks == 1..NumConcurrent

\* Overlapping invocations of one command and of one session, each against
\* a companion that writes, exits or hangs, interleaved in every order.
ConcurrentInit ==
    /\ InitOf(ConcurrentTasks)
    /\ companion_path # None
    /\ device_set_path = None

ConcurrentNext ==
    \E t \in ConcurrentTasks :
        \/ \E args \in RunArguments : RunCompanionCommand(t, args, None, TRUE)
        \/ \E udid \in Udids, path \in SocketPaths :
               UnixDomainServer(t, udid, path, NoFilter, TRUE)
        \/ CommunicateReturn(t)
        \/ CommunicateTimeout(t)
        \/ CancelWait(t)
        \/ Readline(t)
        \/ BodyEnds(t, Returned("None"))
        \/ TerminateWaitReturn(t)
        \/ TerminateWaitTimeout(t)
        \/ CancelTeardown(t)
        \/ \E data \in {GrpcLine, ProgressLine} : ProcWrite(t, data)
        \/ \E rc \in {0, 1, -15, -9} : ProcExit(t, rc)

ConcurrentSpec == ConcurrentInit /\ [][ConcurrentNext]_vars

\* Calls of _terminate_process on one process, the first one included.
MaxTeardowns == 2

\* _terminate_process, lines 36-46, called once more on the process of an
\* invocation that has ended, with nothing new in flight.
TerminateAgain(t) ==
    /\ pc[t] = "done"
    /\ spawned[t] = 1
    /\ teardowns[t] \in 1..(MaxTeardowns - 1)
    /\ TerminateProcess(t, outcome[t])
    /\ UNCHANGED <<config, request, mode, arguments, timeout, yielded,
                   spawned, cmd, returncode, stdout>>

\* The process exits after its invocation has ended, and the event loop
\* sets process.returncode.
ProcExitAfterwards(t, rc) ==
    /\ spawned[t] > 0
    /\ returncode[t] = None
    /\ pc[t] = "done"
    /\ rc \in ExitCodes(t)
    /\ returncode' = [returncode EXCEPT ![t] = Some(rc)]
    /\ UNCHANGED <<config, taskVars, spawned, cmd, stdout, signals,
                   teardowns, teardown>>

\* One invocation of a command or of a session, whose process is handed to
\* _terminate_process again after the invocation has ended.
RepeatNext ==
    \E t \in {Caller} :
        \/ \E args \in RunArguments, ok \in BOOLEAN :
               RunCompanionCommand(t, args, None, ok)
        \/ \E udid \in Udids, path \in SocketPaths, ok \in BOOLEAN :
               UnixDomainServer(t, udid, path, NoFilter, ok)
        \/ CommunicateReturn(t)
        \/ CommunicateTimeout(t)
        \/ CancelWait(t)
        \/ Readline(t)
        \/ \E exc \in BodyExits : BodyEnds(t, exc)
        \/ TerminateWaitReturn(t)
        \/ TerminateWaitTimeout(t)
        \/ CancelTeardown(t)
        \/ TerminateAgain(t)
        \/ \E data \in RunOutputs \cup {GrpcLine, ProgressLine} :
               ProcWrite(t, data)
        \/ \E rc \in {0, 1, -15, -9} : ProcExit(t, rc)
        \/ \E rc \in {0, 1, -15, -9} : ProcExitAfterwards(t, rc)

RepeatSpec == Init /\ [][RepeatNext]_vars

-----------------------------------------------------------------------------
(* Properties *)

Waits == {"communicate", "readline", "terminate_wait"}

\* _terminate_process ran to its end: the process had exited, exited after
\* SIGTERM, or was sent SIGKILL after the timed-out wait.
TeardownFinished(t) ==
    teardown[t] \in {"already_exited", "exited_after_sigterm", "killed"}

\* No cancellation reached the task.
NotCancelled(t) == carried[t] # CancelledError /\ teardown[t] # "cancelled"

\* The handshake line was read and the session failed on it.
HandshakeFailed(t) ==
    /\ mode[t] \in Sessions
    /\ yielded[t] = None
    /\ carried[t].kind \notin {"none", "CancelledError"}

\* C1: in every mode and for every way the use of the process ends, a
\* spawned process has _terminate_process started on it exactly once: not
\* before the scope is left, once from then on, and never without a spawn.
ExactlyOneTeardown ==
    \A t \in Tasks :
        /\ teardowns[t] <= spawned[t]
        /\ spawned[t] <= 1
        /\ pc[t] \in {"communicate", "readline", "body"} => teardowns[t] = 0
        /\ pc[t] = "terminate_wait" => teardowns[t] = 1
        /\ pc[t] = "done" /\ spawned[t] = 1 => teardowns[t] = 1

\* C1 witness: a session whose handshake wait was cancelled has ended with
\* one teardown of its process.
CancelledSessionTornDownOnce ==
    \E t \in Tasks :
        /\ mode[t] \in Sessions
        /\ pc[t] = "done"
        /\ spawned[t] = 1
        /\ carried[t] = CancelledError
        /\ teardowns[t] = 1

\* C2: when the wait after SIGTERM times out, SIGKILL is sent exactly once;
\* when the process exits within the timeout, no SIGKILL is sent; SIGKILL is
\* only ever sent after SIGTERM and a timed-out wait.
TeardownEscalation ==
    \A t \in Tasks :
        /\ teardown[t] \in {"killed", "timeout_raised"} => Sent(t, "SIGKILL") = 1
        /\ teardown[t] = "exited_after_sigterm" => Sent(t, "SIGKILL") = 0
        /\ Sent(t, "SIGKILL") > 0 =>
               /\ signals[t] = <<Signal("SIGTERM", t), Signal("SIGKILL", t)>>
               /\ teardown[t] = "killed"

\* C3: when the caller of _run_companion_command observes the result of a
\* call that spawned, teardown has finished: the process has exited or the
\* escalation has run to its end.
RunTornDownBeforeResult ==
    \A t \in Tasks :
        mode[t] = "run" /\ pc[t] = "done" /\ spawned[t] = 1 /\ NotCancelled(t)
            => TeardownFinished(t)

\* C4: a cancellation that arrives while the task waits on communicate() or
\* on the handshake line is reported to the caller after the process has
\* been torn down.
CancelledWaitTornDownBeforeReport ==
    \A t \in Tasks :
        /\ pc[t] = "done"
        /\ carried[t] = CancelledError
        /\ yielded[t] = None
        /\ teardown[t] # "cancelled"
        => /\ TeardownFinished(t)
           /\ outcome[t] = CancelledError

\* C5: every wait on the companion is paired with a timeout, so a task that
\* waits (for the command, the handshake line, the exit after SIGTERM) gets
\* control back whatever the companion does.
EveryWaitReturns ==
    \A t \in Tasks : (pc[t] \in Waits) ~> (pc[t] \notin Waits)

\* C6: the process alone decides the outcome of run: exit code 0 before the
\* timeout returns the captured stdout, a nonzero exit code before the
\* timeout raises the command failure naming the arguments, and no exit
\* within the timeout raises the timeout failure naming arguments and timeout.
RunOutcomeDecidedByProcess ==
    \A t \in Tasks :
        mode[t] = "run" /\ pc[t] = "done" /\ spawned[t] = 1 /\ NotCancelled(t)
            => IF teardown[t] = "already_exited"
                   THEN IF returncode[t] = Some(0)
                            THEN outcome[t] = Returned(stdout[t])
                            ELSE outcome[t] = CommandFailure(t)
                   ELSE outcome[t] = CommandTimeout(t)

\* C7: a teardown that starts on a process whose returncode is set returns
\* at once and sends no signal.
NoSignalAfterExit ==
    [][\A t \in Tasks :
           teardowns'[t] = teardowns[t] + 1 /\ returncode[t] # None
               => signals'[t] = signals[t] /\ pc'[t] = "done"]_vars

\* C7 witness: a session whose process exited on its own was released, and
\* teardown sent nothing.
ReleasedAfterExitUnsignalled ==
    \E t \in Tasks :
        /\ pc[t] = "done"
        /\ teardowns[t] = 1
        /\ teardown[t] = "already_exited"
        /\ signals[t] = <<>>

\* C8: with no companion path configured every operation fails at once with
\* the configuration error, whose message differs off macOS, and nothing is
\* spawned, torn down or signalled.
NoPathNoSpawn ==
    companion_path = None =>
        \A t \in Tasks :
            /\ pc[t] \in {"idle", "done"}
            /\ spawned[t] = 0 /\ teardowns[t] = 0 /\ signals[t] = <<>>
            /\ pc[t] = "done" =>
                   outcome[t] =
                       Raised("IdbException",
                              IF platform = "darwin"
                                  THEN "Companion path not provided"
                                  ELSE "Companion interactions do not work on non-macOS platforms")

\* C8 witness: an operation has failed on a non-macOS platform with no path.
FailedWithoutPathOffMacOS ==
    \E t \in Tasks :
        /\ companion_path = None
        /\ platform = "linux"
        /\ pc[t] = "done"
        /\ outcome[t].kind = "IdbException"

\* C9: a session whose handshake line cannot be read or parsed never enters
\* the caller's body, raises that failure, and has torn the process down
\* when the caller observes it.
HandshakeFailureAborts ==
    \A t \in Tasks :
        HandshakeFailed(t) =>
            /\ pc[t] \in {"terminate_wait", "done"}
            /\ pc[t] = "done" /\ teardown[t] # "cancelled" =>
                   /\ outcome[t] = carried[t]
                   /\ TeardownFinished(t)

\* C10: the socket handshake yields the grpc_path of the line; an object
\* without the field fails with the missing-field error, a line that is not
\* JSON with the other kind, IdbJsonException; after either failure the
\* process is torn down.
SocketHandshakeClassified ==
    \A t \in Tasks :
        mode[t] = "unix_domain_server" =>
            /\ pc[t] = "body" =>
                   /\ stdout[t] \in {GrpcLine, OtherGrpcLine}
                   /\ stdout[t] = GrpcLine => yielded[t] = Some("/tmp/sock")
                   /\ stdout[t] = OtherGrpcLine => yielded[t] = Some("/tmp/other")
            /\ HandshakeFailed(t) /\ stdout[t] = UdidOnlyLine =>
                   /\ carried[t].kind = "IdbException"
                   /\ carried[t].msg = "No grpc_path in "
            /\ HandshakeFailed(t) /\ stdout[t] = ProgressLine =>
                   carried[t].kind = "IdbJsonException"
            /\ HandshakeFailed(t) /\ stdout[t] \in {UdidOnlyLine, ProgressLine}
                   /\ pc[t] = "done" /\ teardown[t] # "cancelled" =>
                   TeardownFinished(t)

\* The first line of the session was read: the session was yielded or failed
\* on the line.
HandshakeRead(t) == yielded[t] # None \/ HandshakeFailed(t)

\* C11: parse_json_line either returns the decoded JSON value or fails with
\* IdbJsonException carrying the line, for bytes that are not valid text as
\* for text that is not valid JSON; seen on the line unix_domain_server read.
ParseJsonLineTyped ==
    \A t \in Tasks :
        mode[t] = "unix_domain_server" /\ HandshakeRead(t) =>
            LET decoded == Decode(stdout[t]) IN
            IF decoded.raised \/ JsonLoads(stdout[t]).raised
                THEN /\ HandshakeFailed(t)
                     /\ carried[t].kind = "IdbJsonException"
                     /\ carried[t].line = stdout[t]
                ELSE carried[t].kind # "IdbJsonException"

\* The text communicate() captured from the process of a command.
Captured(t) == IF stdout[t] = EndOfStream THEN <<>> ELSE stdout[t]

\* communicate() returned with exit code 0 and the operation has ended.
Succeeded(t, ops) ==
    /\ mode[t] \in ops
    /\ pc[t] = "done"
    /\ teardown[t] = "already_exited"
    /\ returncode[t] = Some(0)
    /\ NotCancelled(t)

\* The lines of the output that are not blank, and what each parses into.
NonBlankLines(t) ==
    SelectSeq(splitlines(Captured(t)), LAMBDA line : strip(line) # <<>>)
ParsedLine(t, i) == target_description_from_json(LineText(NonBlankLines(t)[i]))

\* C12: list_targets is all-or-nothing: when a line that is not blank fails
\* to parse the call fails with that failure and returns no list; otherwise
\* it returns one record for each line that is not blank, in output order,
\* blank lines left out.
ListAllOrNothing ==
    \A t \in Tasks :
        Succeeded(t, {"list_targets"}) =>
            LET n == Len(NonBlankLines(t)) IN
            IF \E i \in 1..n : ParsedLine(t, i).raised
                THEN \E i \in 1..n :
                         /\ ParsedLine(t, i).raised
                         /\ outcome[t] = ParsedLine(t, i).exc
                ELSE /\ outcome[t].kind = "return"
                     /\ Len(outcome[t].value) = n
                     /\ \A i \in 1..n :
                            outcome[t].value[i] = ParsedLine(t, i).value

\* C12 witness: a listing whose first line is a record and whose second line
\* is not JSON has failed as a whole.
ListFailedOnOneLine ==
    \E t \in Tasks :
        /\ Succeeded(t, {"list_targets"})
        /\ Captured(t) = <<TargetLine, NL, ProgressLine>>
        /\ outcome[t].kind = "JSONDecodeError"

\* The lines of the output that are not empty.
NonEmptyLines(t) ==
    SelectSeq(splitlines(Captured(t)), LAMBDA line : line # <<>>)

\* C13: create and clone, after an exit code of 0, return what the last line
\* that is not empty parses into (or raise its parse failure), whatever lines
\* come before it and whatever empty lines come after it; with no such line
\* they fail.
LastNonEmptyLineParsed ==
    \A t \in Tasks :
        Succeeded(t, {"create", "clone"}) =>
            LET lines == NonEmptyLines(t) IN
            IF lines = <<>>
                THEN outcome[t].kind # "return"
                ELSE LET target == target_description_from_json(
                                       LineText(lines[Len(lines)])) IN
                     IF target.raised
                         THEN outcome[t] = target.exc
                         ELSE outcome[t] = Returned(target.value)
\* The listed entries a target_description call chooses among: those whose
\* udid is the one asked for, or all of them when none is asked for.
Candidates(t) ==
    {i \in 1..Len(NonBlankLines(t)) :
         request[t].udid # None =>
             ParsedLine(t, i).value.udid.value = TheValue(request[t].udid)}

\* C14: target_description returns an entry only when there is exactly one
\* candidate, and then that entry; with none it fails, and with more than
\* one it fails, also when they carry the same udid.
DescribeExactlyOne ==
    \A t \in Tasks :
        /\ Succeeded(t, {"target_description"})
        /\ \A i \in 1..Len(NonBlankLines(t)) : ~ParsedLine(t, i).raised
        => LET found == Candidates(t) IN
           /\ Cardinality(found) = 0 =>
                  outcome[t] = Raised("IdbException", "No device info found")
           /\ Cardinality(found) > 1 =>
                  outcome[t] =
                      Raised("IdbException", "More than one device info found")
           /\ Cardinality(found) = 1 =>
                  \E i \in found : outcome[t] = Returned(ParsedLine(t, i).value)

\* C14 witness: asked for U1 against a listing with two entries of udid U1,
\* the call has failed.
DescribeFailedOnDuplicates ==
    \E t \in Tasks :
        /\ Succeeded(t, {"target_description"})
        /\ request[t].udid = Some("U1")
        /\ Captured(t) = <<TargetLine, NL, TargetLine>>
        /\ outcome[t].kind = "IdbException"
SessionUnsignalledUntilRelease ==
    \A t \in Tasks :
        mode[t] \in Sessions /\ yielded[t] # None =>
            /\ pc[t] = "body" => signals[t] = <<>> /\ teardowns[t] = 0
            /\ signals[t] # <<>> =>
                   /\ signals[t][1] = Signal("SIGTERM", t)
                   /\ pc[t] \in {"terminate_wait", "done"}
                   /\ teardowns[t] = 1
                   /\ carried[t] \in BodyExits

\* C16 witness: a held session was released while its process was running,
\* and SIGTERM was sent then.
HeldSessionReleased ==
    \E t \in Tasks :
        /\ mode[t] \in Sessions
        /\ yielded[t] # None
        /\ carried[t] = Returned("None")
        /\ signals[t] = <<Signal("SIGTERM", t)>>
\* C17: _terminate_process returns normally whatever the process does: at
\* once when it has exited, when it exits after SIGTERM, or after one timed
\* out wait and the SIGKILL that follows it, with no wait after the SIGKILL;
\* what was in flight then goes on to the caller.
TeardownReturnsNormally ==
    \A t \in Tasks :
        pc[t] = "done" /\ teardowns[t] = 1 /\ teardown[t] # "cancelled" =>
            /\ TeardownFinished(t)
            /\ outcome[t] = carried[t]
            /\ returncode[t] = None =>
                   signals[t] = <<Signal("SIGTERM", t), Signal("SIGKILL", t)>>
\* C18: the wait of _run_companion_command is bounded by the timeout the
\* caller passed, and by the default only when the caller passed None; a
\* timeout of 0 is a timeout passed.
SuppliedTimeoutBoundsRun ==
    \A t \in Tasks :
        mode[t] \in {"run"} \cup Operations =>
            timeout[t] =
                IF request[t].timeout = None
                    THEN Some(DEFAULT_COMPANION_COMMAND_TIMEOUT)
                    ELSE request[t].timeout
\* The failures of parsing the output of a command.
ParseFailures == {"JSONDecodeError", "TargetDescriptionError", "IndexError"}

\* C19: in create, clone and list_targets the exit code is looked at before
\* the output: a nonzero exit code ends the call with the command failure
\* whatever was written, and a parse failure is only observed after an exit
\* code of 0.
ExitCodeBeforeParsing ==
    \A t \in Tasks :
        mode[t] \in {"create", "clone", "list_targets"} /\ pc[t] = "done" =>
            /\ /\ teardown[t] = "already_exited"
               /\ returncode[t] # Some(0)
               /\ NotCancelled(t)
               => outcome[t] = CommandFailure(t)
            /\ outcome[t].kind \in ParseFailures => returncode[t] = Some(0)

\* C19 witness: a create whose companion wrote a line that is not JSON and
\* exited with a nonzero code has failed with the command failure.
FailedCommandNotParsed ==
    \E t \in Tasks :
        /\ mode[t] = "create"
        /\ pc[t] = "done"
        /\ returncode[t] = Some(1)
        /\ Captured(t) = <<ProgressLine, NL>>
        /\ outcome[t] = CommandFailure(t)
\* C20: overlapping invocations each own their process: a signal reaches a
\* process only from the teardown of the invocation that spawned it, and a
\* step in which one invocation signals, tears down or ends (by timeout,
\* failure or cancellation) leaves every other invocation, its process and
\* its outcome as they were.
InvocationsIsolated ==
    [][\A u \in ConcurrentTasks :
           /\ \A i \in 1..Len(signals'[u]) : signals'[u][i].by = u
           /\ \/ signals'[u] # signals[u]
              \/ teardowns'[u] # teardowns[u]
              \/ outcome'[u] # outcome[u]
              => \A v \in ConcurrentTasks \ {u} :
                     /\ signals'[v] = signals[v]
                     /\ returncode'[v] = returncode[v]
                     /\ stdout'[v] = stdout[v]
                     /\ pc'[v] = pc[v]
                     /\ carried'[v] = carried[v]
                     /\ teardown'[v] = teardown[v]
                     /\ outcome'[v] = outcome[v]]_vars

\* C20 witness: one invocation timed out and is in its teardown, SIGTERM
\* sent, while the process of another runs on, unsignalled.
TeardownBesideRunningProcess ==
    \E u, v \in ConcurrentTasks :
        /\ u # v
        /\ mode[u] = "run"
        /\ carried[u] = CommandTimeout(u)
        /\ pc[u] = "terminate_wait"
        /\ signals[u] = <<Signal("SIGTERM", u)>>
        /\ pc[v] \in {"communicate", "body"}
        /\ returncode[v] = None
        /\ signals[v] = <<>>
\* C21: _terminate_process called again on a process whose earlier teardown
\* ran to its end (it had exited, it exited after SIGTERM, or it was sent
\* SIGKILL) returns at once: it sends no signal and changes neither the
\* process nor what the caller observed.
TeardownIdempotent ==
    [][\A t \in Tasks :
           /\ teardowns[t] >= 1
           /\ TeardownFinished(t)
           /\ teardowns'[t] = teardowns[t] + 1
           => /\ signals'[t] = signals[t]
              /\ returncode'[t] = returncode[t]
              /\ outcome'[t] = outcome[t]
              /\ pc'[t] = "done"]_vars
\* C22: the command line of every spawned process is the executable path,
\* then --device-set-path and the path when one is configured and nothing
\* when none is, then the arguments the operation built, in their order;
\* delete called with no udid passes "all" as the udid.
CommandLineShape ==
    \A t \in Tasks :
        spawned[t] = 1 =>
            /\ cmd[t][1] = TheValue(companion_path)
            /\ IF device_set_path # None
                   THEN /\ Len(cmd[t]) = Len(arguments[t]) + 3
                        /\ cmd[t][2] = "--device-set-path"
                        /\ cmd[t][3] = TheValue(device_set_path)
                        /\ SubSeq(cmd[t], 4, Len(cmd[t])) = arguments[t]
                   ELSE /\ Len(cmd[t]) = Len(arguments[t]) + 1
                        /\ SubSeq(cmd[t], 2, Len(cmd[t])) = arguments[t]
                        /\ \A i \in 1..Len(cmd[t]) :
                               cmd[t][i] # "--device-set-path"
            /\ mode[t] = "delete" =>
                   arguments[t] =
                       <<"--delete",
                         IF request[t].udid = None
                             THEN "all"
                             ELSE TheValue(request[t].udid)>>

\* C22 witness: delete with no udid was spawned on a Companion with a device
\* set path.
DeleteAllSpawnedOnDeviceSet ==
    \E t \in Tasks :
        /\ mode[t] = "delete"
        /\ request[t].udid = None
        /\ spawned[t] = 1
        /\ cmd[t] = <<CompanionPath, "--device-set-path", DeviceSetPath,
                      "--delete", "all">>

\* C23: every filter becomes at most one --only option.  The arguments of
\* list_targets (and of target_description, which calls it) are --list 1, and
\* those of unix_domain_server are --udid <udid> --grpc-domain-sock <path>,
\* followed by nothing for no filter, by --only simulator or --only device
\* for a target type, and by --only ecid:<id> for an ECID filter; the token
\* --only never occurs twice.
OnlyArgumentShape ==
    \A t \in Tasks :
        (mode[t] \in {"list_targets", "target_description", "unix_domain_server"}
         /\ pc[t] # "idle") =>
            LET only == request[t].only
                own == IF mode[t] = "unix_domain_server"
                           THEN <<"--udid", TheValue(request[t].udid),
                                  "--grpc-domain-sock">>
                           ELSE <<"--list", "1">>
                n == IF mode[t] = "unix_domain_server" THEN 4 ELSE 2
                tail == SubSeq(arguments[t], n + 1, Len(arguments[t]))
            IN  /\ Len(arguments[t]) >= n
                /\ \A i \in 1..Len(own) : arguments[t][i] = own[i]
                /\ mode[t] = "unix_domain_server" => arguments[t][4] \in SocketPaths
                /\ only = NoFilter => tail = <<>>
                /\ only = SimulatorFilter => tail = <<"--only", "simulator">>
                /\ only = DeviceFilter => tail = <<"--only", "device">>
                /\ only = EcidFilter => tail = <<"--only", "ecid:42">>
                /\ Cardinality({i \in 1..Len(arguments[t]) :
                                    arguments[t][i] = "--only"}) <= 1
                /\ spawned[t] > 0 =>
                       SubSeq(cmd[t], Len(cmd[t]) - Len(arguments[t]) + 1,
                              Len(cmd[t])) = arguments[t]

\* A listing filtered by device type was spawned with its one --only option
\* last on the command line.
FilteredListingSpawned ==
    \E t \in Tasks :
        /\ spawned[t] > 0
        /\ mode[t] = "list_targets"
        /\ request[t].only = DeviceFilter
        /\ arguments[t] = <<"--list", "1", "--only", "device">>
        /\ cmd[t][Len(cmd[t])] = "device"

\* C24: a cancellation that arrives while _terminate_process waits after
\* SIGTERM reaches the caller only once the process has exited or has been
\* sent SIGKILL.
CancelledTeardownEscalates ==
    \A t \in Tasks :
        (teardown[t] = "cancelled" /\ outcome[t] = CancelledError) =>
            returncode[t] # None \/ Sent(t, "SIGKILL") > 0

\* C25: a run that ended because the process finished, with exit code 0 or
\* not, was torn down without a signal; a run whose process was sent SIGTERM
\* or SIGKILL had timed out or had been cancelled.
RunSignalsOnlyOnTimeoutOrCancel ==
    \A t \in Tasks :
        mode[t] \in {"run"} \cup Operations =>
            /\ (teardowns[t] > 0
                 /\ carried[t] \notin {CommandTimeout(t), CancelledError}) =>
                    /\ returncode[t] # None
                    /\ teardown[t] = "already_exited"
                    /\ signals[t] = <<>>
            /\ signals[t] # <<>> =>
                    /\ teardowns[t] > 0
                    /\ carried[t] \in {CommandTimeout(t), CancelledError}

\* A run whose process exited with a nonzero code by itself ended with the
\* failure of line 123 and no signal.
FailedRunUnsignalled ==
    \E t \in Tasks :
        /\ mode[t] = "run"
        /\ pc[t] = "done"
        /\ returncode[t] = Some(1)
        /\ outcome[t] = CommandFailure(t)
        /\ teardown[t] = "already_exited"
        /\ signals[t] = <<>>

====
